---------------------------- MODULE Spec2Model ----------------------------
(***************************************************************************)
(* Transcoding job / stream lifecycle of the FastAPI backend               *)
(* (src/services/backend/app/routers/transcode.py).                        *)
(*                                                                         *)
(* The async handlers run one at a time on the event loop; process_stream  *)
(* is a synchronous background task and so runs in a worker thread, truly  *)
(* concurrent with the handlers; FFmpeg is an external process.            *)
(***************************************************************************)
EXTENDS Integers, FiniteSets, Sequences, TLC

\* ------------------------------------------------------------------ bounds
MaxStreams == 1
MaxFiles == 1
MaxSegs == 1
TickSeconds == 3601
MaxClock == 3601
MaxCred == 3

\* --------------------------------------------------------- program constants
\* cleanup_old_jobs: "older than 1 hour"
RETENTION == 3600

Ids == 1..(MaxStreams + MaxFiles)

\* A directory name under TRANSCODE_DIR: the id itself (transcode_video) or
\* "stream_" + id (create_stream, create_hls_stream).
JobDir(id) == <<"", id>>
\* a launcher that keeps all streams in one directory
StreamDir_Shared(id) == <<"stream_", 1>>
StreamDir(id) == <<"stream_", id>>
Names == {JobDir(i) : i \in Ids} \cup {StreamDir(i) : i \in Ids}

\* ---------------------------------------------------- status.json contents
Rec(s, d) == [status |-> s, detail |-> d]
NoFile == Rec("NOFILE", "")
\* a file opened with mode "w" whose json.dump has not been flushed yet
Truncated == Rec("TRUNCATED", "")
\* two writers' bytes overlaid: json.load raises JSONDecodeError
Corrupt == Rec("CORRUPT", "")
Readable(c) == c \notin {NoFile, Truncated, Corrupt}

\* Bytes json.dump writes for a record: the least and the most, over the
\* pids (1 to 7 digits), segment counts and error texts that can occur
\* (stderr may be empty; an OSError text names the errno and the path).
MinSize(c) ==
    CASE c.status = "processing" -> 39
      [] c.status = "starting" -> 37
      [] c.status = "launching" -> 38
      [] c.status = "streaming" /\ c.detail = "pid" -> 50
      [] c.status = "streaming" /\ c.detail = "segments" -> 65
      [] c.status = "warning" -> 105
      [] c.status = "completed" -> 40
      [] c.status = "failed" /\ c.detail = "stderr" -> 33
      [] c.status = "failed" -> 73
      [] c.status = "stopped" /\ c.detail = "Stream manually stopped" -> 59
      [] c.status = "stopped" /\ c.detail = "Stream already stopped or completed" -> 71
      [] c.status = "stopped" /\ c.detail = "Stream terminated due to server shutdown" -> 76
      [] OTHER -> 0

MaxSize(c) ==
    CASE c.status = "streaming" /\ c.detail = "pid" -> 56
      [] c.status = "streaming" /\ c.detail = "segments" -> 72
      [] c.status = "warning" -> 111
      [] c.status = "failed" -> 100000
      [] OTHER -> MinSize(c)

\* A writer that opened the file with "w" flushes its record at offset 0 on
\* close. If another writer filled the file in between, the longer of the two
\* records decides: this record alone, or this record followed by the tail of
\* the other one, which json.load rejects.
Overlay(mine, existing) ==
    IF \lnot Readable(existing) THEN {mine}
    ELSE {c \in {mine} : MaxSize(mine) >= MaxSize(existing)}
         \cup {c \in {Corrupt} : MinSize(mine) < MinSize(existing)}

\* ------------------------------------------------------------ stream URLs
\* A URL is its sequence of characters. Clients submit rtsp://<credentials>@h/s
\* with credentials of up to MaxCred characters.
CredChars == {"u", "@", ":", "%", "+"}
Credentials == UNION {[1..n -> CredChars] : n \in 1..MaxCred}
PlainCredentials == <<"u", ":", "u">>
Url(cred) == <<"r", "t", "s", "p", ":", "/", "/">> \o cred \o <<"@", "h", "/", "s">>

\* re.compile(r'/transcode/stream/[a-f0-9-]+/index\.m3u8').search(url)
PatternHead == <<"/", "t", "r", "a", "n", "s", "c", "o", "d", "e", "/", "s", "t", "r", "e", "a", "m", "/">>
PatternTail == <<"/", "i", "n", "d", "e", "x", ".", "m", "3", "u", "8">>
PatternIdChars == {"a", "b", "c", "d", "e", "f", "-",
                   "0", "1", "2", "3", "4", "5", "6", "7", "8", "9"}

internal_stream_pattern(url) ==
    \E k \in 1..Len(url), n \in 1..Len(url) :
        LET id == k + Len(PatternHead)
            tail == id + n
        IN  /\ tail + Len(PatternTail) - 1 <= Len(url)
            /\ SubSeq(url, k, id - 1) = PatternHead
            /\ \A m \in id..(tail - 1) : url[m] \in PatternIdChars
            /\ SubSeq(url, tail, tail + Len(PatternTail) - 1) = PatternTail

\* a URL of one of the service's own streams, and one that only looks like it
InternalUrl == <<"h", "t", "t", "p", ":", "/", "/", "h", "/", "t", "r", "a", "n", "s", "c", "o", "d", "e", "/", "s", "t", "r", "e", "a", "m", "/", "a", "/", "i", "n", "d", "e", "x", ".", "m", "3", "u", "8">>
AlmostInternalUrl == <<"h", "t", "t", "p", ":", "/", "/", "h", "/", "t", "r", "a", "n", "s", "c", "o", "d", "e", "/", "s", "t", "r", "e", "a", "m", "/", "/", "i", "n", "d", "e", "x", ".", "m", "3", "u", "8">>

\* str.find over a set of characters: the first position from `from` on, or
\* one past the end
Find(s, chars, from) ==
    LET hits == {k \in from..Len(s) : s[k] \in chars} IN
    IF hits = {} THEN Len(s) + 1 ELSE CHOOSE k \in hits : \A m \in hits : k <= m

Has(s, chars) == \E k \in 1..Len(s) : s[k] \in chars

\* urllib.parse.urlparse: the scheme ends at the first ":", the netloc runs
\* from behind "//" to the first of "/", "?", "#"; rest is path, query, fragment
urlparse(u) ==
    LET colon == Find(u, {":"}, 1)
        slashes == colon + 2 <= Len(u) /\ u[colon + 1] = "/" /\ u[colon + 2] = "/"
        stop == IF slashes THEN Find(u, {"/", "?", "#"}, colon + 3) ELSE colon + 1
    IN [scheme |-> SubSeq(u, 1, colon - 1),
        netloc |-> IF slashes THEN SubSeq(u, colon + 3, stop - 1) ELSE <<>>,
        rest |-> SubSeq(u, stop, Len(u))]

urlunparse(parsed) == parsed.scheme \o <<":", "/", "/">> \o parsed.netloc \o parsed.rest

\* urllib.parse.quote(s, safe=''): everything but unreserved characters
\* becomes %XX
quote_char(c) ==
    CASE c = "@" -> <<"%", "4", "0">>
      [] c = ":" -> <<"%", "3", "A">>
      [] c = "%" -> <<"%", "2", "5">>
      [] c = "+" -> <<"%", "2", "B">>
      [] OTHER -> <<c>>

RECURSIVE quote(_)
quote(s) == IF s = <<>> THEN <<>> ELSE quote_char(Head(s)) \o quote(Tail(s))

\* the encoded_url of create_stream and create_hls_stream
encoded_url(url) ==
    LET parsed == urlparse(url)
        netloc == parsed.netloc
        at == Find(netloc, {"@"}, 1)
        auth == SubSeq(netloc, 1, at - 1)
        host == SubSeq(netloc, at + 1, Len(netloc))
        colon == Find(auth, {":"}, 1)
        username == SubSeq(auth, 1, colon - 1)
        password == SubSeq(auth, colon + 1, Len(auth))
    IN  IF \lnot Has(netloc, {"@"}) THEN url
        ELSE IF \lnot Has(auth, {":"}) THEN url
        ELSE IF \/ Has(password, {"@"})
                \/ \lnot Has(password, {"%"}) /\ Has(password, {" ", "?", "&", "=", "#", "+"})
        THEN urlunparse([parsed EXCEPT
                !.netloc = quote(username) \o <<":">> \o quote(password) \o <<"@">> \o host])
        ELSE url

NoJob == [status |-> "NOJOB", created_at |-> 0]

FileNames == {"index.m3u8", "segment.ts", "other"}

Idle == [op |-> "idle", id |-> 0, file |-> "", pc |-> ""]
NotShutDown == [pc |-> "no", todo |-> {}, id |-> 0, hit |-> {}]
NoResp == [op |-> "none", arg |-> <<>>, code |-> 0, body |-> ""]

VARIABLES
    nextId,          \* uuid4 source: ids are handed out fresh
    kind,            \* which handler generated each id: "none", "file", "stream"
    dirs,            \* directories that exist under TRANSCODE_DIR
    statusFile,      \* contents of <dir>/status.json
    manifest,        \* stream_<id>/index.m3u8 exists
    segs,            \* number of segment_*.ts files in stream_<id>
    transcode_jobs,  \* the in-memory registry
    active_processes,\* stream ids with a registered Popen handle
    proc,            \* the external process of each job
    psPc,            \* position of each process_stream background task
    tvPc,            \* position of each transcode_video request
    loop,            \* the handler currently occupying the event loop
    now,             \* time.time()
    resp,            \* response of the handler that finished in this step
    acked,           \* ids a creation request returned successfully
    stopCalled,      \* streams for which stop_stream got past its 404 test
    stopAcked,       \* streams for which stop_stream answered "stopped"
    stream_url,      \* the stream_url / rtsp_url field clients submit
    input_url,       \* the URL create_stream handed to process_stream
    output,          \* <id>/output.mp4 of each file job: "none", "partial", "full"
    shutdown         \* terminate_processes: its position and the handles it has yet to visit

vars == <<nextId, kind, dirs, statusFile, manifest, segs, transcode_jobs,
          active_processes, proc, psPc, tvPc, loop, now, resp, acked, stopCalled, stopAcked,
          stream_url, input_url, output, shutdown>>

NoRequestsYet ==
    /\ nextId = 1
    /\ kind = [i \in Ids |-> "none"]
    /\ dirs = {}
    /\ statusFile = [n \in Names |-> NoFile]
    /\ manifest = [i \in Ids |-> FALSE]
    /\ segs = [i \in Ids |-> 0]
    /\ transcode_jobs = [i \in Ids |-> NoJob]
    /\ active_processes = {}
    /\ proc = [i \in Ids |-> "none"]
    /\ psPc = [i \in Ids |-> "none"]
    /\ tvPc = [i \in Ids |-> "none"]
    /\ loop = Idle
    /\ now = 0
    /\ resp = NoResp
    /\ acked = {}
    /\ stopCalled = {}
    /\ stopAcked = {}
    /\ input_url = [i \in Ids |-> <<>>]
    /\ output = [i \in Ids |-> "none"]
    /\ shutdown = NotShutDown

Init == NoRequestsYet /\ stream_url = Url(PlainCredentials)

Streams == {i \in Ids : kind[i] = "stream"}
Files == {i \in Ids : kind[i] = "file"}

\* "term": SIGTERM was sent; "killed": SIGKILL was sent and the process has
\* not gone yet
Running(i) == proc[i] \in {"running", "term", "killed"}
Exited(i) == proc[i] \in {"exit0", "exitN"}

Terminal == {"completed", "failed", "stopped"}

\* ------------------------------------------------------------ create_stream
\* create_stream / create_hls_stream from uuid4 to the response; the
\* background task is queued and starts after the response is sent.
CreateStreamUpTo(limit) ==
    /\ loop = Idle
    /\ nextId \in Ids
    /\ Cardinality(Streams) < limit
    /\ IF internal_stream_pattern(stream_url)
       THEN \* HTTPException(400) is raised inside the try block, caught by
            \* "except Exception" and raised again as 500
            /\ resp' = [op |-> "create_stream", arg |-> <<>>, code |-> 500,
                        body |-> "Error creating stream"]
            /\ UNCHANGED <<nextId, kind, dirs, transcode_jobs, statusFile, psPc, acked, input_url>>
       ELSE LET i == nextId IN
            /\ nextId' = nextId + 1
            /\ kind' = [kind EXCEPT ![i] = "stream"]
            /\ dirs' = dirs \cup {StreamDir(i)}
            /\ transcode_jobs' = [transcode_jobs EXCEPT
                                    ![i] = [status |-> "processing", created_at |-> now]]
            /\ statusFile' = [statusFile EXCEPT ![StreamDir(i)] = Rec("processing", "")]
            /\ psPc' = [psPc EXCEPT ![i] = "queued"]
            /\ acked' = acked \cup {i}
            /\ resp' = [op |-> "create_stream", arg |-> <<i>>, code |-> 202, body |-> "processing"]
            /\ input_url' = [input_url EXCEPT ![i] = encoded_url(stream_url)]
    /\ UNCHANGED <<manifest, segs, active_processes, proc, tvPc, loop, now, stopCalled, stopAcked,
                   stream_url, output, shutdown>>

CreateStream == CreateStreamUpTo(MaxStreams)

\* ----------------------------------------------------------- process_stream
\* open(status_path, "w") in the worker thread: the file is truncated at once
ThreadOpen(i, next) ==
    /\ statusFile' = [statusFile EXCEPT ![StreamDir(i)] = Truncated]
    /\ psPc' = [psPc EXCEPT ![i] = next]

\* json.dump + close in the worker thread
ThreadDump(i, rec, next) ==
    /\ \E c \in Overlay(rec, statusFile[StreamDir(i)]) :
            statusFile' = [statusFile EXCEPT ![StreamDir(i)] = c]
    /\ psPc' = [psPc EXCEPT ![i] = next]

PSFrame == UNCHANGED <<nextId, kind, dirs, transcode_jobs, tvPc, loop, now, acked, stopCalled, stopAcked,
                       stream_url, input_url, output, shutdown>>

PS_OpenStarting(i) ==
    /\ psPc[i] = "queued"
    /\ ThreadOpen(i, "dump_starting")
    /\ resp' = NoResp
    /\ PSFrame /\ UNCHANGED <<manifest, segs, active_processes, proc>>

PS_DumpStarting(i) ==
    /\ psPc[i] = "dump_starting"
    /\ ThreadDump(i, Rec("starting", ""), "manifest")
    /\ resp' = NoResp
    /\ PSFrame /\ UNCHANGED <<manifest, segs, active_processes, proc>>

\* the dummy index.m3u8
PS_WriteManifest(i) ==
    /\ psPc[i] = "manifest"
    /\ manifest' = [manifest EXCEPT ![i] = TRUE]
    /\ psPc' = [psPc EXCEPT ![i] = "open_launching"]
    /\ resp' = NoResp
    /\ PSFrame /\ UNCHANGED <<statusFile, segs, active_processes, proc>>

PS_OpenLaunching(i) ==
    /\ psPc[i] = "open_launching"
    /\ ThreadOpen(i, "dump_launching")
    /\ resp' = NoResp
    /\ PSFrame /\ UNCHANGED <<manifest, segs, active_processes, proc>>

PS_DumpLaunching(i) ==
    /\ psPc[i] = "dump_launching"
    /\ ThreadDump(i, Rec("launching", ""), "popen")
    /\ resp' = NoResp
    /\ PSFrame /\ UNCHANGED <<manifest, segs, active_processes, proc>>

\* subprocess.Popen: the process starts, or Popen raises (binary missing)
PS_Popen(i) ==
    /\ psPc[i] = "popen"
    /\ \/ /\ proc' = [proc EXCEPT ![i] = "running"]
          /\ psPc' = [psPc EXCEPT ![i] = "register"]
       \/ /\ proc' = proc
          /\ psPc' = [psPc EXCEPT ![i] = "exc_open"]
    /\ resp' = NoResp
    /\ PSFrame /\ UNCHANGED <<statusFile, manifest, segs, active_processes>>

\* active_processes[stream_id] = process
PS_Register(i) ==
    /\ psPc[i] = "register"
    /\ active_processes' = active_processes \cup {i}
    /\ psPc' = [psPc EXCEPT ![i] = "open_streaming"]
    /\ resp' = NoResp
    /\ PSFrame /\ UNCHANGED <<statusFile, manifest, segs, proc>>

\* open(status_path, "w") behind the launch; an OSError (disk full, directory
\* gone) leads to the except clause with the process running
PS_OpenStreaming(i) ==
    /\ psPc[i] = "open_streaming"
    /\ \/ ThreadOpen(i, "dump_streaming")
       \/ statusFile' = statusFile /\ psPc' = [psPc EXCEPT ![i] = "exc_open"]
    /\ resp' = NoResp
    /\ PSFrame /\ UNCHANGED <<manifest, segs, active_processes, proc>>

PS_DumpStreaming(i) ==
    /\ psPc[i] = "dump_streaming"
    /\ ThreadDump(i, Rec("streaming", "pid"), "sleep")
    /\ resp' = NoResp
    /\ PSFrame /\ UNCHANGED <<manifest, segs, active_processes, proc>>

\* time.sleep(3), the glob of segment_*.ts, and the open of the status file
PS_SegmentCheck(i) ==
    /\ psPc[i] = "sleep"
    /\ \/ ThreadOpen(i, IF segs[i] = 0 THEN "dump_warning" ELSE "dump_segments")
       \/ statusFile' = statusFile /\ psPc' = [psPc EXCEPT ![i] = "exc_open"]
    /\ resp' = NoResp
    /\ PSFrame /\ UNCHANGED <<manifest, segs, active_processes, proc>>

PS_DumpWarning(i) ==
    /\ psPc[i] = "dump_warning"
    /\ ThreadDump(i, Rec("warning", "Stream started but no segments created yet"), "communicate")
    /\ resp' = NoResp
    /\ PSFrame /\ UNCHANGED <<manifest, segs, active_processes, proc>>

PS_DumpSegments(i) ==
    /\ psPc[i] = "dump_segments"
    /\ ThreadDump(i, Rec("streaming", "segments"), "communicate")
    /\ resp' = NoResp
    /\ PSFrame /\ UNCHANGED <<manifest, segs, active_processes, proc>>

\* a monitor that starts the encoder again when it has exited
PS_Communicate_Restart(i) ==
    /\ psPc[i] = "communicate"
    /\ Exited(i)
    /\ proc' = [proc EXCEPT ![i] = "running"]
    /\ psPc' = [psPc EXCEPT ![i] = "register"]
    /\ resp' = NoResp
    /\ PSFrame /\ UNCHANGED <<statusFile, manifest, segs, active_processes>>

\* process.communicate() returns once the process has exited
PS_Communicate(i) ==
    /\ psPc[i] = "communicate"
    /\ Exited(i)
    /\ psPc' = [psPc EXCEPT ![i] = "pop"]
    /\ resp' = NoResp
    /\ PSFrame /\ UNCHANGED <<statusFile, manifest, segs, active_processes, proc>>

\* active_processes.pop(stream_id, None) and the returncode test: a zero
\* return code is only logged
PS_Pop(i) ==
    /\ psPc[i] = "pop"
    /\ active_processes' = active_processes \ {i}
    /\ psPc' = [psPc EXCEPT ![i] = IF proc[i] = "exit0" THEN "done" ELSE "open_failed"]
    /\ resp' = NoResp
    /\ PSFrame /\ UNCHANGED <<statusFile, manifest, segs, proc>>

PS_OpenFailed(i) ==
    /\ psPc[i] = "open_failed"
    /\ ThreadOpen(i, "dump_failed")
    /\ resp' = NoResp
    /\ PSFrame /\ UNCHANGED <<manifest, segs, active_processes, proc>>

PS_DumpFailed(i) ==
    /\ psPc[i] = "dump_failed"
    /\ ThreadDump(i, Rec("failed", "stderr"), "done")
    /\ resp' = NoResp
    /\ PSFrame /\ UNCHANGED <<manifest, segs, active_processes, proc>>

\* except Exception: the failed record, then the pop; when this open raises
\* as well the exception leaves the task and the pop is skipped
PS_ExcOpen(i) ==
    /\ psPc[i] = "exc_open"
    /\ \/ ThreadOpen(i, "exc_dump")
       \/ statusFile' = statusFile /\ psPc' = [psPc EXCEPT ![i] = "done"]
    /\ resp' = NoResp
    /\ PSFrame /\ UNCHANGED <<manifest, segs, active_processes, proc>>

PS_ExcDump(i) ==
    /\ psPc[i] = "exc_dump"
    /\ ThreadDump(i, Rec("failed", "exception"), "exc_pop")
    /\ resp' = NoResp
    /\ PSFrame /\ UNCHANGED <<manifest, segs, active_processes, proc>>

PS_ExcPop(i) ==
    /\ psPc[i] = "exc_pop"
    /\ active_processes' = active_processes \ {i}
    /\ psPc' = [psPc EXCEPT ![i] = "done"]
    /\ resp' = NoResp
    /\ PSFrame /\ UNCHANGED <<statusFile, manifest, segs, proc>>

process_stream(i) ==
    \/ PS_OpenStarting(i) \/ PS_DumpStarting(i) \/ PS_WriteManifest(i)
    \/ PS_OpenLaunching(i) \/ PS_DumpLaunching(i) \/ PS_Popen(i) \/ PS_Register(i)
    \/ PS_OpenStreaming(i) \/ PS_DumpStreaming(i) \/ PS_SegmentCheck(i)
    \/ PS_DumpWarning(i) \/ PS_DumpSegments(i) \/ PS_Communicate(i) \/ PS_Pop(i)
    \/ PS_OpenFailed(i) \/ PS_DumpFailed(i)
    \/ PS_ExcOpen(i) \/ PS_ExcDump(i) \/ PS_ExcPop(i)

\* ------------------------------------------------------ the external process
\* FFmpeg exits on its own (source ended, connection lost, ...) or after a
\* SIGTERM; a signalled process reports a nonzero return code.
ProcExit(i) ==
    /\ Running(i)
    /\ \E c \in IF proc[i] = "running" THEN {"exit0", "exitN"} ELSE {"exitN"} :
            /\ proc' = [proc EXCEPT ![i] = c]
            /\ output' = IF kind[i] = "file" /\ c = "exit0"
                         THEN [output EXCEPT ![i] = "full"] ELSE output
    /\ resp' = NoResp
    /\ UNCHANGED <<nextId, kind, dirs, statusFile, manifest, segs, transcode_jobs,
                   active_processes, psPc, tvPc, loop, now, acked, stopCalled, stopAcked,
                   stream_url, input_url, shutdown>>

\* the encoder of a file job creates output.mp4 ("-y", output_path) and
\* fills it while it runs; the file is complete when it exits with code 0
ProcOutput(i) ==
    /\ kind[i] = "file"
    /\ Running(i)
    /\ output[i] = "none"
    /\ output' = [output EXCEPT ![i] = "partial"]
    /\ resp' = NoResp
    /\ UNCHANGED <<nextId, kind, dirs, statusFile, manifest, segs, transcode_jobs,
                   active_processes, proc, psPc, tvPc, loop, now, acked, stopCalled, stopAcked,
                   stream_url, input_url, shutdown>>

\* the HLS muxer of a running stream process writes a segment file, or
\* deletes the oldest one (hls_flags delete_segments)
ProcSegment(i) ==
    /\ kind[i] = "stream"
    /\ Running(i)
    /\ \/ segs[i] < MaxSegs /\ segs' = [segs EXCEPT ![i] = @ + 1]
       \/ segs[i] > 0 /\ segs' = [segs EXCEPT ![i] = @ - 1]
    /\ resp' = NoResp
    /\ UNCHANGED <<nextId, kind, dirs, statusFile, manifest, transcode_jobs,
                   active_processes, proc, psPc, tvPc, loop, now, acked, stopCalled, stopAcked,
                   stream_url, input_url, output, shutdown>>

\* --------------------------------------------------------------- stop_stream
HandlerFrame == UNCHANGED <<nextId, kind, dirs, manifest, segs, transcode_jobs, psPc, tvPc, now, acked,
                            stream_url, input_url, output, shutdown>>

StopResp(i, code, body) == [op |-> "stop_stream", arg |-> <<i>>, code |-> code, body |-> body]

\* the exists() test of status.json and the "stream_id in active_processes"
\* test; with no registered handle the whole else branch follows
Stop_Begin(i) ==
    /\ loop = Idle
    /\ IF statusFile[StreamDir(i)] = NoFile
       THEN /\ resp' = StopResp(i, 404, "Stream not found")
            /\ UNCHANGED <<statusFile, loop, stopCalled, stopAcked>>
       ELSE IF i \in active_processes
       THEN /\ loop' = [op |-> "stop", id |-> i, file |-> "", pc |-> "lookup"]
            /\ resp' = NoResp
            /\ stopCalled' = stopCalled \cup {i}
            /\ UNCHANGED <<statusFile, stopAcked>>
       ELSE /\ statusFile' = [statusFile EXCEPT
                                ![StreamDir(i)] = Rec("stopped", "Stream already stopped or completed")]
            /\ resp' = StopResp(i, 202, "stopped")
            /\ stopCalled' = stopCalled \cup {i}
            /\ stopAcked' = stopAcked \cup {i}
            /\ loop' = loop
    /\ HandlerFrame /\ UNCHANGED <<active_processes, proc>>

\* process = active_processes[stream_id] (KeyError when the worker thread
\* popped the handle since the membership test), poll(), terminate()
Stop_Lookup(i) ==
    /\ loop = [op |-> "stop", id |-> i, file |-> "", pc |-> "lookup"]
    /\ IF i \notin active_processes
       THEN /\ resp' = StopResp(i, 202, "error")
            /\ loop' = Idle
            /\ UNCHANGED <<statusFile, proc, stopAcked>>
       ELSE IF proc[i] = "running"
       THEN /\ proc' = [proc EXCEPT ![i] = "term"]
            /\ loop' = [loop EXCEPT !.pc = "wait"]
            /\ resp' = NoResp
            /\ UNCHANGED <<statusFile, stopAcked>>
       ELSE /\ statusFile' = [statusFile EXCEPT
                                ![StreamDir(i)] = Rec("stopped", "Stream manually stopped")]
            /\ resp' = StopResp(i, 202, "stopped")
            /\ stopAcked' = stopAcked \cup {i}
            /\ loop' = Idle
            /\ proc' = proc
    /\ HandlerFrame /\ UNCHANGED <<active_processes, stopCalled>>

\* process.wait(timeout=5) expired: process.kill(), which sends SIGKILL and
\* returns without waiting for the process to go
Stop_Kill(i) ==
    /\ loop = [op |-> "stop", id |-> i, file |-> "", pc |-> "wait"]
    /\ proc[i] = "term"
    /\ proc' = [proc EXCEPT ![i] = "killed"]
    /\ resp' = NoResp
    /\ HandlerFrame /\ UNCHANGED <<statusFile, active_processes, loop, stopCalled, stopAcked>>

\* wait() returned or kill() was called: pop the handle, write the stopped
\* record, answer
Stop_Finish(i) ==
    /\ loop = [op |-> "stop", id |-> i, file |-> "", pc |-> "wait"]
    /\ Exited(i) \/ proc[i] = "killed"
    /\ active_processes' = active_processes \ {i}
    /\ statusFile' = [statusFile EXCEPT
                        ![StreamDir(i)] = Rec("stopped", "Stream manually stopped")]
    /\ resp' = StopResp(i, 202, "stopped")
    /\ stopAcked' = stopAcked \cup {i}
    /\ loop' = Idle
    /\ HandlerFrame /\ UNCHANGED <<proc, stopCalled>>

stop_stream(i) == Stop_Begin(i) \/ Stop_Lookup(i) \/ Stop_Kill(i) \/ Stop_Finish(i)

\* ------------------------------------------------------------ get_job_status
\* job_id is any path segment; the file read is TRANSCODE_DIR/job_id/status.json
JsonLoadFails(c) == c \in {Truncated, Corrupt}

\* a status handler that answers a missing file with a default record
get_job_status_default(n) ==
    LET c == statusFile[n] IN
    IF c = NoFile \/ JsonLoadFails(c) THEN [code |-> 200, body |-> "unknown"]
    ELSE [code |-> 200, body |-> c.status]

get_job_status(n) ==
    LET c == statusFile[n] IN
    IF c = NoFile THEN [code |-> 404, body |-> "Job not found"]
    ELSE IF JsonLoadFails(c) THEN [code |-> 500, body |-> "JSONDecodeError"]
    ELSE [code |-> 200, body |-> c.status]

GetJobStatus(n) ==
    /\ loop = Idle
    /\ resp' = [op |-> "get_job_status", arg |-> n,
                code |-> get_job_status(n).code, body |-> get_job_status(n).body]
    /\ UNCHANGED <<nextId, kind, dirs, statusFile, manifest, segs, transcode_jobs,
                   active_processes, proc, psPc, tvPc, loop, now, acked, stopCalled, stopAcked,
                   stream_url, input_url, output, shutdown>>

\* -------------------------------------------------- download_transcoded_file
\* glob("output.*") in TRANSCODE_DIR/job_id: only a file job's directory
\* ever holds an output file
OutputFile(n) == IF n \in dirs /\ n[1] = "" THEN output[n[2]] ELSE "none"

\* a download that serves whatever output file it finds
download_unchecked(n) ==
    IF OutputFile(n) = "none" THEN [code |-> 404, body |-> "Output file not found"]
    ELSE [code |-> 200, body |-> OutputFile(n)]

download_transcoded_file(n) ==
    LET c == statusFile[n] IN
    IF OutputFile(n) = "none" THEN [code |-> 404, body |-> "Output file not found"]
    ELSE IF c = NoFile THEN [code |-> 404, body |-> "Output file not found"]
    ELSE IF JsonLoadFails(c) THEN [code |-> 500, body |-> "JSONDecodeError"]
    ELSE IF c.status # "completed" THEN [code |-> 400, body |-> "Transcoding job not completed"]
    ELSE [code |-> 200, body |-> OutputFile(n)]

DownloadTranscodedFile(n) ==
    /\ loop = Idle
    /\ resp' = [op |-> "download_transcoded_file", arg |-> n,
                code |-> download_transcoded_file(n).code,
                body |-> download_transcoded_file(n).body]
    /\ UNCHANGED <<nextId, kind, dirs, statusFile, manifest, segs, transcode_jobs,
                   active_processes, proc, psPc, tvPc, loop, now, acked, stopCalled, stopAcked,
                   stream_url, input_url, output, shutdown>>

\* ----------------------------------------------------------- get_stream_file
FileExists(i, f) ==
    /\ StreamDir(i) \in dirs
    /\ CASE f = "index.m3u8" -> manifest[i]
         [] f = "segment.ts" -> segs[i] > 0
         [] OTHER -> FALSE

GsfResp(i, f, code, body) == [op |-> "get_stream_file", arg |-> <<i, f>>, code |-> code, body |-> body]
GsfAt(i, f, pc) == [op |-> "get_stream_file", id |-> i, file |-> f, pc |-> pc]

GsfFrame == UNCHANGED <<nextId, kind, dirs, statusFile, manifest, segs, transcode_jobs,
                        active_processes, proc, psPc, tvPc, now, acked, stopCalled, stopAcked,
                        stream_url, input_url, output, shutdown>>

\* the first read of status.json: the wait playlist for starting/launching
GSF_FirstRead(i, f) ==
    /\ loop = Idle
    /\ LET c == statusFile[StreamDir(i)] IN
       IF Readable(c) /\ c.status \in {"starting", "launching"} /\ f = "index.m3u8"
       THEN resp' = GsfResp(i, f, 200, "wait_playlist") /\ loop' = loop
       ELSE resp' = NoResp /\ loop' = GsfAt(i, f, "exists")
    /\ GsfFrame

\* os.path.exists(file_path) and the branch on the file name
GSF_Exists(i, f) ==
    /\ loop = GsfAt(i, f, "exists")
    /\ IF FileExists(i, f) THEN resp' = NoResp /\ loop' = GsfAt(i, f, "open")
       ELSE IF f = "segment.ts"
       THEN resp' = GsfResp(i, f, 404, "Stream segment not found") /\ loop' = Idle
       ELSE IF f = "index.m3u8"
       THEN IF StreamDir(i) \in dirs /\ statusFile[StreamDir(i)] # NoFile
            THEN resp' = NoResp /\ loop' = GsfAt(i, f, "reread")
            ELSE resp' = GsfResp(i, f, 404, "Stream file not found") /\ loop' = Idle
       ELSE resp' = NoResp /\ loop' = GsfAt(i, f, "open")
    /\ GsfFrame

\* the second read of status.json; any exception is logged and ends in 404
GSF_Reread(i, f) ==
    /\ loop = GsfAt(i, f, "reread")
    /\ LET c == statusFile[StreamDir(i)] IN
       IF Readable(c) /\ c.status \in {"processing", "starting", "launching"}
       THEN resp' = GsfResp(i, f, 200, "wait_playlist")
       ELSE resp' = GsfResp(i, f, 404, "Stream file not found")
    /\ loop' = Idle
    /\ GsfFrame

\* StreamingResponse(open(file_path, "rb")): FileNotFoundError is not caught
GSF_Open(i, f) ==
    /\ loop = GsfAt(i, f, "open")
    /\ IF FileExists(i, f)
       THEN resp' = GsfResp(i, f, 200, "file")
       ELSE resp' = GsfResp(i, f, 500, "FileNotFoundError")
    /\ loop' = Idle
    /\ GsfFrame

get_stream_file(i, f) ==
    GSF_FirstRead(i, f) \/ GSF_Exists(i, f) \/ GSF_Reread(i, f) \/ GSF_Open(i, f)

\* ----------------------------------------------------------- transcode_video
TvResp(i, code, body) == [op |-> "transcode_video", arg |-> <<i>>, code |-> code, body |-> body]
TvFrame == UNCHANGED <<manifest, segs, active_processes, psPc, now, stopCalled, stopAcked,
                       stream_url, input_url, output, shutdown>>

\* uuid4, makedirs(job_dir), open(input, "wb"), await file.read()
TV_Begin ==
    /\ loop = Idle
    /\ nextId \in Ids
    /\ Cardinality(Files) < MaxFiles
    /\ LET i == nextId IN
        /\ nextId' = nextId + 1
        /\ kind' = [kind EXCEPT ![i] = "file"]
        /\ dirs' = dirs \cup {JobDir(i)}
        /\ tvPc' = [tvPc EXCEPT ![i] = "await"]
    /\ resp' = NoResp
    /\ TvFrame /\ UNCHANGED <<statusFile, transcode_jobs, proc, loop, acked>>

\* an except clause that marks every job on disk as failed
TvExcept_EveryJob(i) ==
    /\ statusFile' = [n \in Names |-> IF n = JobDir(i) \/ statusFile[n] # NoFile
                                      THEN Rec("failed", "exception") ELSE NoFile]
    /\ resp' = TvResp(i, 500, "Error during transcoding")
    /\ tvPc' = [tvPc EXCEPT ![i] = "done"]

\* except Exception: status.json gets the failed record, the request ends 500
TvExcept(i) ==
    /\ statusFile' = [statusFile EXCEPT ![JobDir(i)] = Rec("failed", "exception")]
    /\ resp' = TvResp(i, 500, "Error during transcoding")
    /\ tvPc' = [tvPc EXCEPT ![i] = "done"]

\* f.write(content) raises: nothing but the failed record is written, and
\* not even that when the except clause's own open() raises too
TV_UploadFails(i) ==
    /\ loop = Idle
    /\ tvPc[i] = "await"
    /\ \/ TvExcept(i)
       \/ /\ statusFile' = statusFile
          /\ resp' = TvResp(i, 500, "Internal Server Error")
          /\ tvPc' = [tvPc EXCEPT ![i] = "done"]
    /\ TvFrame /\ UNCHANGED <<nextId, kind, dirs, transcode_jobs, proc, loop, acked>>

\* the upload is on disk: status.json, the registry entry, Popen
TV_Launch(i) ==
    /\ loop = Idle
    /\ tvPc[i] = "await"
    /\ transcode_jobs' = [transcode_jobs EXCEPT
                            ![i] = [status |-> "processing", created_at |-> now]]
    /\ \/ /\ statusFile' = [statusFile EXCEPT ![JobDir(i)] = Rec("processing", "")]
          /\ proc' = [proc EXCEPT ![i] = "running"]
          /\ tvPc' = [tvPc EXCEPT ![i] = "communicate"]
          /\ loop' = [op |-> "transcode_video", id |-> i, file |-> "", pc |-> "communicate"]
          /\ resp' = NoResp
       \/ /\ TvExcept(i)
          /\ UNCHANGED <<proc, loop>>
    /\ TvFrame /\ UNCHANGED <<nextId, kind, dirs, acked>>

\* process.communicate() returned, on the event loop: the return code decides.
\* The HTTPException raised for a nonzero code is caught by the handler's
\* own except clause, which rewrites the failed record.
TV_Finish(i) ==
    /\ loop = [op |-> "transcode_video", id |-> i, file |-> "", pc |-> "communicate"]
    /\ Exited(i)
    /\ IF proc[i] = "exit0"
       THEN /\ statusFile' = [statusFile EXCEPT ![JobDir(i)] = Rec("completed", "")]
            /\ transcode_jobs' = [transcode_jobs EXCEPT ![i].status = "completed"]
            /\ resp' = TvResp(i, 200, "completed")
            /\ acked' = acked \cup {i}
            /\ tvPc' = [tvPc EXCEPT ![i] = "done"]
       ELSE /\ transcode_jobs' = [transcode_jobs EXCEPT ![i].status = "failed"]
            /\ TvExcept(i)
            /\ acked' = acked
    /\ loop' = Idle
    /\ TvFrame /\ UNCHANGED <<nextId, kind, dirs, proc>>

transcode_video(i) == TV_UploadFails(i) \/ TV_Launch(i) \/ TV_Finish(i)

\* ---------------------------------------------------------- cleanup_old_jobs
\* a sweep that looks at the age alone
Expired_AgeOnly(i) ==
    /\ transcode_jobs[i] # NoJob
    /\ now - transcode_jobs[i].created_at > RETENTION

Expired(i) ==
    /\ transcode_jobs[i] # NoJob
    /\ now - transcode_jobs[i].created_at > RETENTION
    /\ transcode_jobs[i].status \in {"completed", "failed"}

cleanup_old_jobs ==
    LET gone == {i \in Ids : Expired(i)} IN
    /\ dirs' = dirs \ {JobDir(i) : i \in gone}
    /\ statusFile' = [n \in Names |->
                        IF \E i \in gone : n = JobDir(i) THEN NoFile ELSE statusFile[n]]
    /\ transcode_jobs' = [i \in Ids |-> IF i \in gone THEN NoJob ELSE transcode_jobs[i]]
    /\ resp' = [op |-> "cleanup_old_jobs", arg |-> gone, code |-> 0, body |-> ""]
    /\ output' = [i \in Ids |-> IF i \in gone THEN "none" ELSE output[i]]
    /\ UNCHANGED <<nextId, kind, manifest, segs, active_processes, proc, psPc, tvPc,
                   loop, now, acked, stopCalled, stopAcked, stream_url, input_url, shutdown>>

\* ----------------------------------------------------------------- the clock
Tick ==
    /\ now + TickSeconds <= MaxClock
    /\ now' = now + TickSeconds
    /\ resp' = NoResp
    /\ UNCHANGED <<nextId, kind, dirs, statusFile, manifest, segs, transcode_jobs,
                   active_processes, proc, psPc, tvPc, loop, acked, stopCalled, stopAcked,
                   stream_url, input_url, output, shutdown>>

Next ==
    \/ CreateStream
    \/ \E i \in Ids : process_stream(i)
    \/ \E i \in Ids : ProcExit(i)
    \/ \E i \in Ids : ProcSegment(i)
    \/ \E i \in Ids : ProcOutput(i)
    \/ \E i \in Ids : stop_stream(i)
    \/ \E n \in Names : GetJobStatus(n)
    \/ \E n \in Names : DownloadTranscodedFile(n)
    \/ \E i \in Ids, f \in FileNames : get_stream_file(i, f)
    \/ TV_Begin
    \/ \E i \in Ids : transcode_video(i)
    \/ cleanup_old_jobs
    \/ Tick

Spec == Init /\ [][Next]_vars


\* ------------------------------------------------ get_stream_file in isolation
\* The handler as a function of the stream directory it finds: one launched
\* stream whose process is running, with every combination of status record,
\* manifest and segment files in its directory.
ServeRecords ==
    {Rec("streaming", "segments"),
     Rec("warning", "Stream started but no segments created yet"),
     Rec("stopped", "Stream already stopped or completed"), Corrupt}

ServeInit ==
    /\ nextId = 2
    /\ kind = [i \in Ids |-> IF i = 1 THEN "stream" ELSE "none"]
    /\ dirs = {StreamDir(1)}
    /\ \E c \in ServeRecords : statusFile = [n \in Names |-> IF n = StreamDir(1) THEN c ELSE NoFile]
    /\ \E m \in BOOLEAN : manifest = [i \in Ids |-> i = 1 /\ m]
    /\ \E k \in 0..MaxSegs : segs = [i \in Ids |-> IF i = 1 THEN k ELSE 0]
    /\ transcode_jobs = [i \in Ids |-> IF i = 1 THEN [status |-> "processing", created_at |-> 0]
                                                 ELSE NoJob]
    /\ active_processes = {1}
    /\ proc = [i \in Ids |-> IF i = 1 THEN "running" ELSE "none"]
    /\ psPc = [i \in Ids |-> IF i = 1 THEN "communicate" ELSE "none"]
    /\ tvPc = [i \in Ids |-> "none"]
    /\ loop = Idle
    /\ now = 0
    /\ resp = NoResp
    /\ acked = {1}
    /\ stopCalled = {}
    /\ stopAcked = {}
    /\ stream_url = Url(PlainCredentials)
    /\ input_url = [i \in Ids |-> IF i = 1 THEN encoded_url(stream_url) ELSE <<>>]
    /\ output = [i \in Ids |-> "none"]
    /\ shutdown = NotShutDown

ServeNext == \E i \in Ids, f \in FileNames : get_stream_file(i, f)

SpecServe == ServeInit /\ [][ServeNext]_vars

\* ------------------------------------------------- stream creation by URL
\* One stream from creation to the end of its background task, for every
\* URL a client can submit.
UrlInit ==
    /\ NoRequestsYet
    /\ stream_url \in {Url(cred) : cred \in Credentials} \cup {InternalUrl, AlmostInternalUrl}

UrlNext ==
    \/ CreateStream
    \/ \E i \in Ids : process_stream(i)
    \/ \E i \in Ids : ProcExit(i)
    \/ \E i \in Ids : ProcSegment(i)

SpecUrl == UrlInit /\ [][UrlNext]_vars

\* ------------------------------------------------------- creations side by side
\* Any two creations, two streams included, with their background tasks
\* running side by side and stop requests for either.
CreateStreamAgain == CreateStreamUpTo(MaxStreams + MaxFiles)

PairNext ==
    \/ CreateStreamAgain
    \/ \E i \in Ids : process_stream(i)
    \/ \E i \in Ids : ProcExit(i)
    \/ \E i \in Ids : ProcSegment(i)
    \/ \E i \in Ids : ProcOutput(i)
    \/ \E i \in Ids : stop_stream(i)
    \/ TV_Begin
    \/ \E i \in Ids : transcode_video(i)

SpecPair == Init /\ [][PairNext]_vars

\* ------------------------------------------------------- terminate_processes
\* The atexit handler. It runs in the main thread when the server has left
\* its event loop, so no request handler runs beside it; a process_stream
\* task that is blocked in communicate() still is a live thread and goes on
\* when its process exits.
SdFrame == UNCHANGED <<nextId, kind, dirs, manifest, segs, transcode_jobs, active_processes,
                       psPc, tvPc, now, acked, stopCalled, stopAcked,
                       stream_url, input_url, output>>

\* list(active_processes.items())
SD_Begin ==
    /\ loop = Idle
    /\ shutdown.pc = "no"
    /\ shutdown' = [pc |-> "next", todo |-> active_processes, id |-> 0, hit |-> {}]
    /\ loop' = [op |-> "shutdown", id |-> 0, file |-> "", pc |-> ""]
    /\ resp' = NoResp
    /\ SdFrame /\ UNCHANGED <<statusFile, proc>>

\* process.poll() is None: terminate(); an exited process is passed over
SD_Visit(i) ==
    /\ shutdown.pc = "next"
    /\ i \in shutdown.todo
    /\ IF Running(i)
       THEN /\ proc' = [proc EXCEPT ![i] = IF @ = "running" THEN "term" ELSE @]
            /\ shutdown' = [shutdown EXCEPT !.pc = "wait", !.id = i, !.hit = @ \cup {i}]
       ELSE /\ proc' = proc
            /\ shutdown' = [shutdown EXCEPT !.todo = @ \ {i}]
    /\ resp' = NoResp
    /\ SdFrame /\ UNCHANGED <<statusFile, loop>>

\* process.wait(timeout=3) expired: process.kill()
SD_Kill(i) ==
    /\ shutdown.pc = "wait" /\ shutdown.id = i
    /\ proc[i] = "term"
    /\ proc' = [proc EXCEPT ![i] = "killed"]
    /\ resp' = NoResp
    /\ SdFrame /\ UNCHANGED <<statusFile, loop, shutdown>>

\* wait() returned or kill() was called: the stopped record if status.json
\* exists
SD_Write(i) ==
    /\ shutdown.pc = "wait" /\ shutdown.id = i
    /\ Exited(i) \/ proc[i] = "killed"
    /\ statusFile' = IF statusFile[StreamDir(i)] = NoFile THEN statusFile
                     ELSE [statusFile EXCEPT ![StreamDir(i)] =
                                Rec("stopped", "Stream terminated due to server shutdown")]
    /\ shutdown' = [shutdown EXCEPT !.pc = "next", !.id = 0, !.todo = @ \ {i}]
    /\ resp' = NoResp
    /\ SdFrame /\ UNCHANGED <<proc, loop>>

SD_End ==
    /\ shutdown.pc = "next"
    /\ shutdown.todo = {}
    /\ shutdown' = [shutdown EXCEPT !.pc = "done"]
    /\ resp' = [op |-> "terminate_processes", arg |-> shutdown.hit, code |-> 0, body |-> ""]
    /\ SdFrame /\ UNCHANGED <<statusFile, proc, loop>>

terminate_processes ==
    \/ SD_Begin
    \/ \E i \in Ids : SD_Visit(i) \/ SD_Kill(i) \/ SD_Write(i)
    \/ SD_End

\* streams from creation to the shutdown of the server
ShutdownNext ==
    \/ CreateStream
    \/ \E i \in Ids : process_stream(i)
    \/ \E i \in Ids : ProcExit(i)
    \/ \E i \in Ids : ProcSegment(i)
    \/ \E i \in Ids : stop_stream(i)
    \/ terminate_processes

SpecShutdown == Init /\ [][ShutdownNext]_vars

\* ------------------------------------------------------ jobs that run to the end
\* The operations that move a job, under the scheduling the server gives
\* them: a worker thread that can take a step eventually takes it, and a
\* request the event loop has begun is carried to its answer. Clients need
\* not send any request, and a process need not exit.
LiveNext ==
    \/ CreateStream
    \/ \E i \in Ids : process_stream(i)
    \/ \E i \in Ids : ProcExit(i)
    \/ \E i \in Ids : ProcSegment(i)
    \/ \E i \in Ids : ProcOutput(i)
    \/ \E i \in Ids : stop_stream(i)
    \/ TV_Begin
    \/ \E i \in Ids : transcode_video(i)

LiveFairness ==
    \A i \in Ids :
        /\ WF_vars(process_stream(i))
        /\ WF_vars(Stop_Lookup(i) \/ Stop_Kill(i) \/ Stop_Finish(i))
        /\ WF_vars(transcode_video(i))

SpecLive == Init /\ [][LiveNext]_vars /\ LiveFairness

\* ======================================================================
\* Claims
\* ======================================================================
Dir(i) == IF kind[i] = "stream" THEN StreamDir(i) ELSE JobDir(i)
Sidecar(i) == statusFile[Dir(i)]

Rank(s) ==
    CASE s \in {"queued", "initializing"} -> 0
      [] s \in {"starting", "launching"} -> 1
      [] s \in {"processing", "streaming", "warning"} -> 2
      [] s \in Terminal -> 3
      [] OTHER -> 0

\* C1: the status in a job's sidecar only moves forward along
\* queued|initializing -> starting -> processing|streaming -> terminal, and a
\* terminal status (completed, failed, stopped) is never changed again.
C1_StatusOnlyMovesForward ==
    [][\A n \in Names :
        (Readable(statusFile[n]) /\ Readable(statusFile'[n])) =>
            /\ Rank(statusFile'[n].status) >= Rank(statusFile[n].status)
            /\ statusFile[n].status \in Terminal =>
                    statusFile'[n].status = statusFile[n].status]_vars

\* C2: once stop_stream was called for a known stream and both the stop
\* request and the stream's process_stream task have finished, the recorded
\* status is stopped.
C2_StoppedAfterStop ==
    \A i \in stopCalled :
        (psPc[i] = "done" /\ ~(loop.op = "stop" /\ loop.id = i)) =>
            statusFile[StreamDir(i)].status = "stopped"

\* C3: a job whose process exited without a stop request ends completed with
\* an empty error when the exit code is 0, and failed with a non-empty error
\* when it is nonzero.
Finished(i) == IF kind[i] = "stream" THEN psPc[i] = "done" ELSE tvPc[i] = "done"

C3_ExitCodeDecidesStatus ==
    \A i \in Ids :
        (Exited(i) /\ Finished(i) /\ i \notin stopCalled /\ Dir(i) \in dirs) =>
            /\ proc[i] = "exit0" => Sidecar(i) = Rec("completed", "")
            /\ proc[i] = "exitN" => Sidecar(i).status = "failed" /\ Sidecar(i).detail # ""

\* C4: the id a successful creation returned resolves through get_job_status
\* at any later time: the answer carries the job's status and is never 404.
C4_CreatedIdResolves ==
    \A i \in acked : get_job_status(JobDir(i)).code = 200

Initializing(i) ==
    /\ kind[i] = "stream"
    /\ i \notin stopCalled
    /\ psPc[i] \in {"queued", "dump_starting", "manifest", "open_launching",
                    "dump_launching", "popen"}

C6_InitializingNever404 ==
    \A i \in Ids :
        (resp.op = "get_stream_file" /\ resp.arg = <<i, "index.m3u8">>) =>
            /\ kind[i] # "stream" => resp.code = 404
            /\ Initializing(i) => resp.code = 200

\* C7: a stop_stream call on a known stream that is not running (the call
\* never had a live process to terminate) answers "stopped", never an error,
\* and when the stream was stopped before, it leaves status, process and
\* handle table as they were.
C7_StopNotRunningIdempotent ==
    [][\A i \in Ids :
        (resp'.op = "stop_stream" /\ resp'.arg = <<i>> /\ resp'.code # 404
            /\ ~Running(i) /\ loop.pc # "wait") =>
            /\ resp'.body = "stopped"
            /\ (i \in stopAcked /\ statusFile[StreamDir(i)].status = "stopped") =>
                    /\ statusFile'[StreamDir(i)].status = "stopped"
                    /\ proc' = proc
                    /\ active_processes' = active_processes]_vars

\* C8: no step deletes the registry entry or the scratch directory of a job
\* whose external process is still running.
C8_CleanupSparesRunning ==
    [][\A i \in Ids :
        Running(i) =>
            /\ transcode_jobs[i] # NoJob => transcode_jobs'[i] # NoJob
            /\ Dir(i) \in dirs => Dir(i) \in dirs']_vars

C8_Witness ==
    /\ resp.op = "cleanup_old_jobs"
    /\ resp.arg # {}
    /\ \E i \in Ids : Running(i) /\ transcode_jobs[i] # NoJob /\ Dir(i) \in dirs

\* C9: a run of cleanup_old_jobs removes the registry entry and the scratch
\* directory of every job whose status is completed, failed or stopped and
\* that is older than the retention window, and leaves all other jobs alone.
\* (Stated for jobs at rest: the handler or background task has finished.)
TerminalJob(i) ==
    \/ transcode_jobs[i].status \in Terminal
    \/ Readable(Sidecar(i)) /\ Sidecar(i).status \in Terminal

Due(i) ==
    /\ transcode_jobs[i] # NoJob
    /\ Finished(i)
    /\ TerminalJob(i)
    /\ now - transcode_jobs[i].created_at > RETENTION

C9_CleanupRemovesExpiredTerminal ==
    [][resp'.op = "cleanup_old_jobs" =>
        \A i \in Ids :
            IF Due(i)
            THEN transcode_jobs'[i] = NoJob /\ Dir(i) \notin dirs'
            ELSE transcode_jobs'[i] = transcode_jobs[i] /\ (Dir(i) \in dirs <=> Dir(i) \in dirs')]_vars

\* C10: when a stream directory holds at least one segment file and no
\* manifest, a request for index.m3u8 is answered with a playlist that
\* references exactly the segments present.
SegmentsReferenced(body) == IF body = "wait_playlist" THEN 0 ELSE -1

Count(s, ch) == Cardinality({k \in 1..Len(s) : s[k] = ch})

C11_CredentialsEncoded ==
    \A i \in Ids :
        (kind[i] = "stream" /\ proc[i] # "none" /\ Has(urlparse(stream_url).netloc, {"@"})) =>
            Count(urlparse(input_url[i]).netloc, "@") = 1

\* C12: any two creations get distinct ids and distinct scratch directories,
\* and a step of one job's task or request writes nothing in the directory
\* of another job.
Jobs == {i \in Ids : kind[i] # "none"}
Stepped(i) == psPc'[i] # psPc[i] \/ tvPc'[i] # tvPc[i]

C12_DistinctDirectories ==
    [][/\ \A i, j \in Jobs' : i # j => Dir(i)' # Dir(j)'
       /\ \A i \in Ids : Stepped(i) =>
            /\ \A n \in Names \ {Dir(i)'} : statusFile'[n] = statusFile[n]
            /\ \A j \in Ids \ {i} :
                    manifest'[j] = manifest[j] /\ segs'[j] = segs[j] /\ output'[j] = output[j]
            /\ dirs' \subseteq dirs \cup {Dir(i)'}]_vars

C12_Witness ==
    /\ Cardinality(Streams) = 2
    /\ \A i \in Streams : psPc[i] = "done" /\ Readable(statusFile[StreamDir(i)])
    /\ \A i, j \in Streams : transcode_jobs[i].created_at = transcode_jobs[j].created_at

\* C13: download_transcoded_file hands out the output file only when the
\* job's status is completed and the output file exists; for an unknown job
\* or a missing output it answers 404, for an output file next to a status
\* other than completed (a partly written file included) 400, and in both
\* cases no file content.
C13_DownloadOnlyCompleted ==
    \A n \in Names :
        (resp.op = "download_transcoded_file" /\ resp.arg = n) =>
            /\ resp.code = 200 <=>
                    (statusFile[n].status = "completed" /\ OutputFile(n) # "none")
            /\ resp.code = 200 => resp.body = "full"
            /\ resp.code # 200 =>
                    /\ resp.body \notin {"partial", "full"}
                    /\ resp.code = IF OutputFile(n) = "none" THEN 404 ELSE 400

C13_Witness ==
    /\ resp.op = "download_transcoded_file"
    /\ resp.code = 400
    /\ OutputFile(resp.arg) = "partial"
    /\ statusFile[resp.arg].status = "failed"

\* C14: a stream's status is not streaming before a segment file has
\* appeared in its directory or the startup wait (time.sleep(3) behind the
\* launch) is over; until then it is a provisional value.
StartupWaitOver(i) == psPc[i] \notin {"queued", "dump_starting", "manifest", "open_launching",
                                      "dump_launching", "popen", "register",
                                      "open_streaming", "dump_streaming", "sleep"}

C14_StreamingNeedsSegmentOrWait ==
    \A i \in Streams :
        statusFile[StreamDir(i)].status = "streaming" =>
            segs[i] > 0 \/ StartupWaitOver(i)

\* C15: POST /transcode answers once the upload is on disk and does not wait
\* for the encoder: while the encoder of a file job runs, its request has
\* been answered already.
C15_AnsweredBeforeEncoding ==
    \A i \in Files : Running(i) => tvPc[i] = "done"

\* C16: a nonzero exit of a job's process does not make the creating request
\* fail: the answer to POST /transcode and POST /transcode/stream is a
\* success also for a job whose process exits nonzero.
C16_CreateSucceedsThoughJobFails ==
    \A i \in Ids :
        (resp.op \in {"transcode_video", "create_stream"} /\ resp.arg = <<i>>
            /\ proc[i] = "exitN") => resp.code < 400

\* C17: when the encoder could not be spawned or the task raised, the job
\* ends failed with the exception text as error, in its sidecar and in the
\* registry alike (no stop request interfering).
RaisedBeforeLaunch(i) == transcode_jobs[i] # NoJob /\ Finished(i) /\ proc[i] = "none"

C17_ExceptionMarksFailed ==
    \A i \in Ids :
        (RaisedBeforeLaunch(i) /\ i \notin stopCalled /\ Dir(i) \in dirs) =>
            /\ Sidecar(i) = Rec("failed", "exception")
            /\ transcode_jobs[i].status = "failed"

\* C18: while no operation on a job is in progress, its sidecar and its
\* registry entry carry the same status.
AtRest(i) == transcode_jobs[i] # NoJob /\ Finished(i) /\ loop = Idle

C18_SidecarMirrorsRegistry ==
    \A i \in Ids :
        (AtRest(i) /\ Dir(i) \in dirs) =>
            Sidecar(i).status = transcode_jobs[i].status

\* C20: every status in a sidecar, in the registry or in the answer of a stop
\* request is one of queued, starting, processing, streaming, completed,
\* failed, stopped.
StatusEnum == {"queued", "starting", "processing", "streaming", "completed", "failed", "stopped"}

C20_StatusInEnum ==
    /\ \A n \in Names : Readable(statusFile[n]) => statusFile[n].status \in StatusEnum
    /\ \A i \in Ids : transcode_jobs[i] # NoJob => transcode_jobs[i].status \in StatusEnum
    /\ (resp.op = "stop_stream" /\ resp.code # 404) => resp.body \in StatusEnum

\* C19: once a job's process has exited, the job's status eventually becomes
\* completed, failed or stopped.
TerminalStatus(i) == Readable(Sidecar(i)) /\ Sidecar(i).status \in Terminal

C19_ExitLeadsToTerminal ==
    \A i \in Ids : Exited(i) ~> TerminalStatus(i)

\* C21: when stop_stream runs into an error while it terminates the process,
\* the request is still answered 202 and the job's status is stopped.
C21_StopErrorStillStops ==
    \A i \in Ids :
        (resp.op = "stop_stream" /\ resp.arg = <<i>> /\ resp.body = "error") =>
            /\ resp.code = 202
            /\ statusFile[StreamDir(i)].status = "stopped"

\* C22: over a job's whole lifetime at most one external process is started
\* for its id: a process is only ever started for an id that had none, and
\* an id that had a process never goes back to having none.
C22_OneProcessPerJob ==
    [][\A i \in Ids :
        /\ (proc'[i] = "running" /\ proc[i] # "running") => proc[i] = "none"
        /\ proc[i] # "none" => proc'[i] # "none"
        /\ i \in active_processes' => kind'[i] = "stream"]_vars

C22_Witness ==
    \E i \in Streams, j \in Files :
        /\ Exited(i) /\ psPc[i] = "done" /\ i \in stopAcked
        /\ Exited(j) /\ tvPc[j] = "done"

\* C23: when persisting the upload fails, POST /transcode is rejected and no
\* job exists for the generated id: no registry entry, no status record (a
\* later get_job_status answers 404) and no process.
UploadFailed(i) == kind[i] = "file" /\ tvPc[i] = "done" /\ transcode_jobs[i] = NoJob
                   /\ proc[i] = "none" /\ JobDir(i) \in dirs

C23_FailedUploadLeavesNoJob ==
    \A i \in Ids :
        UploadFailed(i) =>
            /\ statusFile[JobDir(i)] = NoFile
            /\ get_job_status(JobDir(i)).code = 404

\* C24: jobs are independent: a step that creates, monitors, stops or fails
\* one job leaves the status record, registry entry, process, process handle
\* and scratch directory of every other job unchanged.
Untouched(b) ==
    /\ statusFile'[JobDir(b)] = statusFile[JobDir(b)]
    /\ statusFile'[StreamDir(b)] = statusFile[StreamDir(b)]
    /\ transcode_jobs'[b] = transcode_jobs[b]
    /\ proc'[b] = proc[b]
    /\ b \in active_processes' <=> b \in active_processes
    /\ JobDir(b) \in dirs' <=> JobDir(b) \in dirs
    /\ StreamDir(b) \in dirs' <=> StreamDir(b) \in dirs
    /\ manifest'[b] = manifest[b] /\ segs'[b] = segs[b] /\ output'[b] = output[b]

C24_JobsIndependent ==
    [][\E a \in Ids : \A b \in Ids \ {a} : Untouched(b)]_vars

C24_Witness ==
    \E a, b \in Ids :
        /\ a # b /\ kind[a] = "stream" /\ kind[b] # "none"
        /\ resp.op = "stop_stream" /\ resp.arg = <<a>> /\ resp.body = "stopped"
        /\ Running(b)

\* C25: stop_stream on a running stream first sends the graceful signal,
\* kills only a process that got the graceful signal and did not exit in
\* time, and when it answers "stopped" the process is no longer running and
\* the stream id is no longer in active_processes.
C25_StopEndsProcess ==
    [][\A i \in Ids :
        /\ (proc'[i] = "term" /\ proc[i] # "term") => proc[i] = "running"
        /\ (proc'[i] = "killed" /\ proc[i] # "killed") => proc[i] = "term"
        /\ (loop.op = "stop" /\ loop.id = i /\ loop.pc = "wait"
                /\ resp'.op = "stop_stream" /\ resp'.body = "stopped") =>
              /\ proc'[i] \in {"exit0", "exitN"}
              /\ i \notin active_processes']_vars

\* C26: every running stream process is reachable through active_processes
\* (from the moment its handle is stored until it is signalled to die), and
\* once the process has exited and its task has ended no handle is left in
\* active_processes.
Tracked(i) == i \in active_processes

C26_NoUntrackedProcessNoLeak ==
    \A i \in Streams :
        /\ (proc[i] \in {"running", "term"} /\ psPc[i] # "register") => Tracked(i)
        /\ (Exited(i) /\ psPc[i] = "done" /\ loop = Idle) => \lnot Tracked(i)

\* C27: once stop_stream has answered "stopped" for a stream, no process of
\* that stream is running untouched by a signal, and none is started later.
C27_NoProcessAfterStopAck ==
    \A i \in stopAcked : proc[i] # "running"

\* C28: a source URL that points at the service's own stream endpoint is
\* rejected with status 400, and nothing is created for it: no stream
\* directory, no registry entry, no status file, no background task.
NothingCreated ==
    /\ dirs = {}
    /\ \A i \in Ids : transcode_jobs[i] = NoJob /\ psPc[i] = "none" /\ kind[i] = "none"
    /\ \A n \in Names : statusFile[n] = NoFile

C28_OwnStreamUrlRejected ==
    internal_stream_pattern(stream_url) =>
        /\ NothingCreated
        /\ resp.op = "create_stream" => resp.code = 400

\* C29: a request to get_stream_file for a file that is not in the stream
\* directory is answered 404 or with the placeholder playlist, whatever the
\* file name and the stream's status; no request ends in an unhandled error.
C29_MissingFileHandled ==
    \A i \in Ids, f \in FileNames :
        (resp.op = "get_stream_file" /\ resp.arg = <<i, f>>) =>
            /\ resp.code # 500
            /\ \lnot FileExists(i, f) => (resp.code = 404 \/ resp.body = "wait_playlist")

\* C30: when terminate_processes has run, every process that was in
\* active_processes and still running has been signalled (killed if it did
\* not exit in time) and the status file of its stream reads stopped;
\* processes that had exited before, and their status files, are untouched.
C30_ShutdownStopsStreams ==
    /\ shutdown.pc = "done" =>
            \A i \in shutdown.hit :
                /\ proc[i] # "running"
                /\ statusFile[StreamDir(i)].status = "stopped"
    /\ \A i \in Ids : (shutdown.pc # "no" /\ proc[i] = "exit0") => i \notin shutdown.hit

=============================================================================
